---- MODULE Spec2Model ----
(***************************************************************************)
(* Model of src/src/treemath.rs (melissa): the index arithmetic of the     *)
(* left-balanced binary ratchet tree and the test-vector generator.        *)
(*                                                                         *)
(* Every function of treemath.rs is a pure function of its arguments, so   *)
(* each is an operator computed the way the code computes it.  The state   *)
(* machine records the last call made (operation, arguments) and what it   *)
(* produced (status, value, path, buffer).                                 *)
(*                                                                         *)
(* A Rust call either returns, panics, or never returns.  Scalar operators *)
(* yield a natural number when the call returns and a negative marker      *)
(* otherwise; sequence operators yield a one-element sequence holding the  *)
(* marker.                                                                 *)
(***************************************************************************)
EXTENDS Integers, Sequences, FiniteSets, TLC

VARIABLES op, n, x, status, value, path, range_start, range_end, ft, buffer, iters,
          vector

vars == <<op, n, x, status, value, path, range_start, range_end, ft, buffer, iters,
          vector>>

(***************************************************************************)
(* Bounds of the model.                                                    *)
(***************************************************************************)
\* largest leaf count of a tree query
MaxLeaves == 17
\* largest small tree size handed to gen_vector
MaxSize == 4
\* a tree size whose node indices no longer fit in one byte (2*130-1 = 259)
WideSize == 130
\* largest small range_start handed to gen_vector
MaxStart == 2
\* a range_start next to the one-byte boundary
WideStart == 254
\* largest range_end - range_start handed to gen_vector
MaxSpan == 3
\* most iterations of one loop that are followed step by step
MaxIters == 8

(***************************************************************************)
(* Outcomes of a call that does not return a value.                        *)
(***************************************************************************)
\* panic!("node index out of range ...") of assert_in_range
OutOfRange == -1
\* a while loop whose variable no longer changes and whose condition holds
Hang == -2
\* the loop variable leaves every tree: the shifts overflow (a panic in a
\* debug build, wrapped shifts and an endless loop in a release build)
Overflow == -3

Failed(v) == v < 0

(***************************************************************************)
(* usize bit operators on naturals: <<, >>, &, |, ^ and a & !b.            *)
(***************************************************************************)
RECURSIVE Pow2(_)
Pow2(k) == IF k = 0 THEN 1 ELSE 2 * Pow2(k - 1)

Shl(a, k) == a * Pow2(k)

Shr(a, k) == a \div Pow2(k)

RECURSIVE BitAnd(_, _)
BitAnd(a, b) ==
    IF a = 0 \/ b = 0 THEN 0
    ELSE (a % 2) * (b % 2) + 2 * BitAnd(a \div 2, b \div 2)

RECURSIVE BitOr(_, _)
BitOr(a, b) ==
    IF a = 0 THEN b
    ELSE IF b = 0 THEN a
    ELSE (IF a % 2 = 1 \/ b % 2 = 1 THEN 1 ELSE 0) + 2 * BitOr(a \div 2, b \div 2)

RECURSIVE BitXor(_, _)
BitXor(a, b) ==
    IF a = 0 THEN b
    ELSE IF b = 0 THEN a
    ELSE (((a % 2) + (b % 2)) % 2) + 2 * BitXor(a \div 2, b \div 2)

\* a & !b
BitAndNot(a, b) == a - BitAnd(a, b)

(***************************************************************************)
(* treemath.rs: scalar helpers.                                            *)
(***************************************************************************)
RECURSIVE log2_loop(_, _)
log2_loop(m, r) == IF m > 1 THEN log2_loop(Shr(m, 1), r + 1) ELSE r

log2(m) == log2_loop(m, 0)

RECURSIVE level_loop(_, _)
level_loop(m, k) ==
    IF BitAnd(Shr(m, k), 1) = 1 THEN level_loop(m, k + 1) ELSE k

level(m) == IF BitAnd(m, 1) = 0 THEN 0 ELSE level_loop(m, 0)

node_width(m) == 2 * (m - 1) + 1

\* TRUE when assert_in_range(i, m) panics
assert_in_range(i, m) == i > node_width(m)

root(m) == Shl(1, log2(node_width(m))) - 1

\* left that returns its argument, as it does for a leaf
left_identity(i) == i

left(i) == IF level(i) = 0 THEN i ELSE BitXor(i, Shl(1, level(i) - 1))

\* parent_step that sets bit k and forgets to clear bit k + 1
parent_step_keeps_bit(i) == BitOr(i, Shl(1, level(i)))

parent_step(i) ==
    LET k == level(i)
    IN  BitAndNot(BitOr(i, Shl(1, k)), Shl(1, k + 1))

(***************************************************************************)
(* treemath.rs: children, parent, sibling.                                 *)
(***************************************************************************)
\* right without its correction loop: the bit-trick index as it is
right_loop_uncorrected(r, m) == r

\* while r >= node_width(n) { r = left(r); }
\* left(r) = r for an even r, so from an even r >= node_width(n) the loop
\* never exits.
RECURSIVE right_loop(_, _)
right_loop(r, m) ==
    IF r >= node_width(m)
    THEN IF left(r) = r THEN Hang ELSE right_loop(left(r), m)
    ELSE r

right(i, m) ==
    IF assert_in_range(i, m) THEN OutOfRange
    ELSE IF level(i) = 0 THEN i
    ELSE right_loop(BitXor(i, Shl(3, level(i) - 1)), m)

\* p = 2^k - 1: parent_step(p) = 2^(k+1) - 1, so from here the loop variable
\* only grows, until 1 << (k + 1) overflows usize.
Escapes(p) == Shr(p, level(p)) = 0

\* parent without the loop that brings p back below node_width(n)
parent_loop_uncorrected(p, m) == p

\* while p >= node_width(n) { p = parent_step(p); }
RECURSIVE parent_loop(_, _)
parent_loop(p, m) ==
    IF p >= node_width(m)
    THEN IF Escapes(p) THEN Overflow ELSE parent_loop(parent_step(p), m)
    ELSE p

\* parent without the test for the root
parent_no_root_test(i, m) ==
    IF assert_in_range(i, m) THEN OutOfRange
    ELSE parent_loop(parent_step(i), m)

parent(i, m) ==
    IF assert_in_range(i, m) THEN OutOfRange
    ELSE IF i = root(m) THEN i
    ELSE parent_loop(parent_step(i), m)

\* sibling with the two comparisons swapped
sibling_swapped(i, m) ==
    IF assert_in_range(i, m) THEN OutOfRange
    ELSE LET p == parent(i, m)
         IN  IF Failed(p) THEN p
             ELSE IF i > p THEN right(p, m)
             ELSE IF i < p THEN left(p)
             ELSE p

sibling(i, m) ==
    IF assert_in_range(i, m) THEN OutOfRange
    ELSE LET p == parent(i, m)
         IN  IF Failed(p) THEN p
             ELSE IF i < p THEN right(p, m)
             ELSE IF i > p THEN left(p)
             ELSE p

(***************************************************************************)
(* treemath.rs: paths and leaves.                                          *)
(***************************************************************************)
PathFailed(d) == Len(d) > 0 /\ d[1] < 0

\* while node_parent != root { dirpath.push(node_parent); node_parent = parent(node_parent, n); }
RECURSIVE dirpath_loop(_, _, _)
dirpath_loop(acc, node_parent, m) ==
    IF Failed(node_parent) THEN <<node_parent>>
    ELSE IF node_parent # root(m)
    THEN dirpath_loop(Append(acc, node_parent), parent(node_parent, m), m)
    ELSE acc

\* dirpath without the test for the root
dirpath_no_root_test(i, m) ==
    IF assert_in_range(i, m) THEN <<OutOfRange>>
    ELSE dirpath_loop(<<i>>, parent(i, m), m)

dirpath(i, m) ==
    IF assert_in_range(i, m) THEN <<OutOfRange>>
    ELSE IF i = root(m) THEN <<>>
    ELSE dirpath_loop(<<i>>, parent(i, m), m)

\* the siblings collected in root-to-leaf order
RECURSIVE copath_map_reversed(_, _, _)
copath_map_reversed(d, acc, m) ==
    IF d = <<>> THEN acc
    ELSE LET s == sibling(Head(d), m)
         IN  IF Failed(s) THEN <<s>>
             ELSE copath_map_reversed(Tail(d), <<s>> \o acc, m)

\* .iter().map(|&x| sibling(x, n)).collect()
RECURSIVE copath_map(_, _, _)
copath_map(d, acc, m) ==
    IF d = <<>> THEN acc
    ELSE LET s == sibling(Head(d), m)
         IN  IF Failed(s) THEN <<s>>
             ELSE copath_map(Tail(d), Append(acc, s), m)

copath(i, m) ==
    LET d == dirpath(i, m)
    IN  IF PathFailed(d) THEN d ELSE copath_map(d, <<>>, m)

\* leaves counted from 1 instead of 0
leaves_from_one(m) == [k \in 1..m |-> 2 * k]

leaves(m) == [k \in 1..m |-> 2 * (k - 1)]

(***************************************************************************)
(* codec: the length-prefixed byte encoder gen_vector writes with.         *)
(***************************************************************************)
\* u8::encode: one byte
encode_u8(buf, b) == Append(buf, b)

\* encode_vec_u8: a one-byte length field, then the bytes (callers keep the
\* length within 255)
encode_vec_u8(buf, v) == Append(buf, Len(v)) \o v

(***************************************************************************)
(* treemath.rs: gen_vector.                                                *)
(***************************************************************************)
OneArgFns == {"root", "level", "node_width", "left", "parent_step"}

TwoArgsFns == {"right", "parent", "sibling"}

TwoArgsPathFns == {"dirpath", "copath"}

FunctionType == OneArgFns \cup TwoArgsFns \cup TwoArgsPathFns

OneArg(f, i) ==
    CASE f = "root" -> root(i)
      [] f = "level" -> level(i)
      [] f = "node_width" -> node_width(i)
      [] f = "left" -> left(i)
      [] f = "parent_step" -> parent_step(i)

TwoArgs(f, i, size) ==
    CASE f = "right" -> right(i, size)
      [] f = "parent" -> parent(i, size)
      [] f = "sibling" -> sibling(i, size)

TwoArgsPath(f, i, size) ==
    CASE f = "dirpath" -> dirpath(i, size)
      [] f = "copath" -> copath(i, size)

\* x as u8
as_u8(v) == v % 256

\* sub_vector_usize.iter().for_each(|&x| sub_vector_u8.push(x as u8))
sub_vector_u8(sub_vector_usize) ==
    [k \in 1..Len(sub_vector_usize) |-> as_u8(sub_vector_usize[k])]

\* for i in Range { start: range_start, end: range_end }: the half-open
\* range, range_end excluded.  fail is the marker of the first call that
\* did not return (0 when every call returned).
RECURSIVE gen_loop(_, _, _, _, _, _)
gen_loop(i, end, size, f, test_vector, test_vector_2d) ==
    IF i >= end
    THEN [test_vector |-> test_vector, test_vector_2d |-> test_vector_2d, fail |-> 0]
    ELSE IF f \in OneArgFns
    THEN gen_loop(i + 1, end, size, f,
                  Append(test_vector, as_u8(OneArg(f, i))), test_vector_2d)
    ELSE IF f \in TwoArgsFns
    THEN LET v == TwoArgs(f, i, size)
         IN  IF Failed(v)
             THEN [test_vector |-> test_vector, test_vector_2d |-> test_vector_2d, fail |-> v]
             ELSE gen_loop(i + 1, end, size, f,
                           Append(test_vector, as_u8(v)), test_vector_2d)
    ELSE LET d == TwoArgsPath(f, i, size)
         IN  IF PathFailed(d)
             THEN [test_vector |-> test_vector, test_vector_2d |-> test_vector_2d, fail |-> d[1]]
             ELSE gen_loop(i + 1, end, size, f,
                           test_vector, Append(test_vector_2d, sub_vector_u8(d)))

\* for e in test_vector_2d.iter_mut() { (e.len() as u8).encode(..); encode_vec_u8(.., e); }
RECURSIVE encode_2d(_, _)
encode_2d(buf, test_vector_2d) ==
    IF test_vector_2d = <<>> THEN buf
    ELSE LET e == Head(test_vector_2d)
         IN  encode_2d(encode_vec_u8(encode_u8(buf, as_u8(Len(e))), e),
                       Tail(test_vector_2d))

gen_vector(start, end, size, f) ==
    LET g == gen_loop(start, end, size, f, <<>>, <<>>)
        num_elements == end - start + 1
        buf == encode_u8(<<>>, as_u8(num_elements))
    IN  IF Failed(g.fail) THEN <<g.fail>>
        ELSE IF f \in TwoArgsPathFns THEN encode_2d(buf, g.test_vector_2d)
        ELSE encode_vec_u8(buf, g.test_vector)

(***************************************************************************)
(* codec: the cursor and the length-prefixed byte decoder read_vector      *)
(* reads with.  pos is the position of the next byte of the cursor.        *)
(***************************************************************************)
\* Cursor::take(k): the next k bytes, or an error if fewer remain
take(buf, pos, k) ==
    IF pos + k - 1 > Len(buf)
    THEN [ok |-> FALSE, bytes |-> <<>>, pos |-> pos]
    ELSE [ok |-> TRUE, bytes |-> SubSeq(buf, pos, pos + k - 1), pos |-> pos + k]

\* decode_vec_u8: a one-byte length field, then that many bytes
decode_vec_u8(buf, pos) ==
    LET l == take(buf, pos, 1)
    IN  IF ~l.ok THEN l ELSE take(buf, l.pos, l.bytes[1])

(***************************************************************************)
(* treemath.rs: read_vector.                                               *)
(***************************************************************************)
ReturnType == {"Primitive", "Vector"}

\* for _ in 0..size { ... decode_vec_u8(&mut cursor).unwrap() ... vector2d.push(sub_vector) }
RECURSIVE read_loop(_, _, _, _)
read_loop(buf, pos, size, vector2d) ==
    IF size = 0 THEN [ok |-> TRUE, vector |-> vector2d]
    ELSE LET d == decode_vec_u8(buf, pos)
         IN  IF ~d.ok THEN [ok |-> FALSE, vector |-> <<>>]
             ELSE read_loop(buf, d.pos, size - 1, Append(vector2d, d.bytes))

\* ok is FALSE when an unwrap() panics on a decoding error
read_vector(rt, buf) ==
    IF rt = "Primitive"
    THEN LET d == decode_vec_u8(buf, 1)
         IN  [ok |-> d.ok, vector |-> d.bytes]
    ELSE LET size == take(buf, 1, 1)
         IN  IF ~size.ok THEN [ok |-> FALSE, vector |-> <<>>]
             ELSE read_loop(buf, size.pos, size.bytes[1], <<>>)

(***************************************************************************)
(* The state machine: one action per public function.                      *)
(***************************************************************************)
LeafCounts == 1..MaxLeaves

\* the valid indices, the index one past the last valid one, and one beyond
Indices(m) == 0..(node_width(m) + 1)

Sizes == (1..MaxSize) \cup {WideSize}

Starts == (0..MaxStart) \cup {WideStart, WideStart + 1}

\* what the caller observes of a call that yields v
Outcomes(v) ==
    IF v = OutOfRange THEN {"panic_range"}
    ELSE IF v = Hang THEN {"hang"}
    ELSE IF v = Overflow THEN {"panic_overflow", "hang"}
    ELSE {"returned"}

\* no test vector is being generated or read
NoVector ==
    /\ range_start' = 0
    /\ range_end' = 0
    /\ ft' = "none"
    /\ buffer' = <<>>
    /\ vector' = <<>>

\* a call of the scalar function o with arguments (i, m) yields v
Scalar(o, m, i, v) ==
    /\ op' = o
    /\ n' = m
    /\ x' = i
    /\ status' \in Outcomes(v)
    /\ value' = v
    /\ path' = <<>>
    /\ iters' = 0

\* a call of the sequence function o with arguments (i, m) yields d
Path(o, m, i, d) ==
    /\ op' = o
    /\ n' = m
    /\ x' = i
    /\ status' \in Outcomes(IF PathFailed(d) THEN d[1] ELSE 0)
    /\ value' = 0
    /\ path' = d
    /\ iters' = 0

Init ==
    /\ op = "none"
    /\ n = 1
    /\ x = 0
    /\ status = "idle"
    /\ value = 0
    /\ path = <<>>
    /\ range_start = 0
    /\ range_end = 0
    /\ ft = "none"
    /\ buffer = <<>>
    /\ iters = 0
    /\ vector = <<>>

CallRoot ==
    /\ status = "idle"
    /\ \E m \in LeafCounts : Scalar("root", m, 0, root(m))
    /\ NoVector

CallLeft ==
    /\ status = "idle"
    /\ \E m \in LeafCounts : \E i \in Indices(m) : Scalar("left", m, i, left(i))
    /\ NoVector

CallRight ==
    /\ status = "idle"
    /\ \E m \in LeafCounts : \E i \in Indices(m) : Scalar("right", m, i, right(i, m))
    /\ NoVector

CallParent ==
    /\ status = "idle"
    /\ \E m \in LeafCounts : \E i \in Indices(m) : Scalar("parent", m, i, parent(i, m))
    /\ NoVector

CallSibling ==
    /\ status = "idle"
    /\ \E m \in LeafCounts : \E i \in Indices(m) : Scalar("sibling", m, i, sibling(i, m))
    /\ NoVector

CallDirpath ==
    /\ status = "idle"
    /\ \E m \in LeafCounts : \E i \in Indices(m) : Path("dirpath", m, i, dirpath(i, m))
    /\ NoVector

CallCopath ==
    /\ status = "idle"
    /\ \E m \in LeafCounts : \E i \in Indices(m) : Path("copath", m, i, copath(i, m))
    /\ NoVector

CallLeaves ==
    /\ status = "idle"
    /\ \E m \in LeafCounts : Path("leaves", m, 0, leaves(m))
    /\ NoVector

\* root and node_width take a leaf count: their domain starts at 1
CallGenVector ==
    /\ status = "idle"
    /\ \E size \in Sizes : \E start \in Starts : \E span \in 0..MaxSpan : \E f \in FunctionType :
        /\ f \in {"root", "node_width"} => start >= 1
        /\ LET b == gen_vector(start, start + span, size, f)
           IN  /\ op' = "gen_vector"
               /\ n' = size
               /\ x' = 0
               /\ status' \in Outcomes(IF PathFailed(b) THEN b[1] ELSE 0)
               /\ value' = 0
               /\ path' = <<>>
               /\ range_start' = start
               /\ range_end' = start + span
               /\ ft' = f
               /\ buffer' = b
               /\ iters' = 0
               /\ vector' = <<>>

\* read_vector applied to the bytes gen_vector produced, with the shape of
\* the function they were generated from
CallReadVector ==
    /\ op = "gen_vector"
    /\ status = "returned"
    /\ LET r == read_vector(IF ft \in TwoArgsPathFns THEN "Vector" ELSE "Primitive", buffer)
       IN  /\ status' = IF r.ok THEN "returned" ELSE "panic_decode"
           /\ vector' = r.vector
    /\ op' = "read_vector"
    /\ UNCHANGED <<n, x, value, path, range_start, range_end, ft, buffer, iters>>

\* the call is over (it returned, panicked or was abandoned): the functions
\* keep no state, so the next call starts from the same state as the first
Done ==
    /\ status \notin {"idle", "running", "in_parent"}
    /\ op' = "none"
    /\ n' = 1
    /\ x' = 0
    /\ status' = "idle"
    /\ value' = 0
    /\ path' = <<>>
    /\ iters' = 0
    /\ NoVector

Next ==
    \/ CallRoot
    \/ CallLeft
    \/ CallRight
    \/ CallParent
    \/ CallSibling
    \/ CallDirpath
    \/ CallCopath
    \/ CallLeaves
    \/ CallGenVector
    \/ CallReadVector
    \/ Done

Spec == Init /\ [][Next]_vars

(***************************************************************************)
(* The loops of right, parent and dirpath, one iteration per step.  value  *)
(* is the loop variable (r, p, node_parent), iters the iterations made.    *)
(***************************************************************************)
\* right up to its loop: let mut r = x ^ (0x03 << (level(x) - 1));
RightEnter ==
    /\ status = "idle"
    /\ \E i \in Indices(n) :
        /\ op' = "right"
        /\ n' = n
        /\ x' = i
        /\ IF assert_in_range(i, n)
           THEN status' = "panic_range" /\ value' = OutOfRange
           ELSE IF level(i) = 0
           THEN status' = "returned" /\ value' = i
           ELSE status' = "running" /\ value' = BitXor(i, Shl(3, level(i) - 1))
    /\ path' = <<>>
    /\ iters' = 0
    /\ NoVector

\* while r >= node_width(n) { r = left(r); }: an iteration that leaves r as
\* it is will be repeated for ever
RightIterate ==
    /\ op = "right"
    /\ status = "running"
    /\ value >= node_width(n)
    /\ iters < MaxIters
    /\ value' = left(value)
    /\ iters' = iters + 1
    /\ status' = IF left(value) = value THEN "hang" ELSE "running"
    /\ UNCHANGED <<op, n, x, path, range_start, range_end, ft, buffer, vector>>

\* the loop condition fails: r is returned
RightReturn ==
    /\ op = "right"
    /\ status = "running"
    /\ value < node_width(n)
    /\ status' = "returned"
    /\ UNCHANGED <<op, n, x, value, path, range_start, range_end, ft, buffer, iters, vector>>

\* parent up to its loop: let mut p = parent_step(x);
ParentEnter ==
    /\ status = "idle"
    /\ \E i \in Indices(n) :
        /\ op' = "parent"
        /\ n' = n
        /\ x' = i
        /\ IF assert_in_range(i, n)
           THEN status' = "panic_range" /\ value' = OutOfRange
           ELSE IF i = root(n)
           THEN status' = "returned" /\ value' = i
           ELSE status' = "running" /\ value' = parent_step(i)
    /\ path' = <<>>
    /\ iters' = 0
    /\ NoVector

\* while p >= node_width(n) { p = parent_step(p); }
ParentIterate ==
    /\ op = "parent"
    /\ status = "running"
    /\ value >= node_width(n)
    /\ iters < MaxIters
    /\ value' = parent_step(value)
    /\ iters' = iters + 1
    /\ IF Escapes(value)
       THEN status' \in Outcomes(Overflow)
       ELSE status' = "running"
    /\ UNCHANGED <<op, n, x, path, range_start, range_end, ft, buffer, vector>>

\* the loop condition fails: p is returned
ParentReturn ==
    /\ op = "parent"
    /\ status = "running"
    /\ value < node_width(n)
    /\ status' = "returned"
    /\ UNCHANGED <<op, n, x, value, path, range_start, range_end, ft, buffer, iters, vector>>

\* dirpath up to its loop: let mut dirpath = vec![x]; let mut node_parent = parent(x, n);
\* x is not the root, so the call of parent goes on to let mut p = parent_step(x)
DirpathEnter ==
    /\ status = "idle"
    /\ \E i \in Indices(n) :
        /\ op' = "dirpath"
        /\ n' = n
        /\ x' = i
        /\ IF assert_in_range(i, n)
           THEN status' = "panic_range" /\ value' = OutOfRange /\ path' = <<>>
           ELSE IF i = root(n)
           THEN status' = "returned" /\ value' = i /\ path' = <<>>
           ELSE status' = "in_parent" /\ value' = parent_step(i) /\ path' = <<i>>
    /\ iters' = 0
    /\ NoVector

\* inside the call of parent: while p >= node_width(n) { p = parent_step(p); }
DirpathParentIterate ==
    /\ op = "dirpath"
    /\ status = "in_parent"
    /\ value >= node_width(n)
    /\ iters < MaxIters
    /\ value' = parent_step(value)
    /\ iters' = iters + 1
    /\ IF Escapes(value)
       THEN status' \in Outcomes(Overflow)
       ELSE status' = "in_parent"
    /\ UNCHANGED <<op, n, x, path, range_start, range_end, ft, buffer, vector>>

\* the call of parent returns p: it is the new node_parent
DirpathParentReturn ==
    /\ op = "dirpath"
    /\ status = "in_parent"
    /\ value < node_width(n)
    /\ status' = "running"
    /\ UNCHANGED <<op, n, x, value, path, range_start, range_end, ft, buffer, iters, vector>>

\* while node_parent != root { dirpath.push(node_parent); node_parent = parent(node_parent, n); }
\* node_parent is in range and not the root, so the call of parent goes on
\* to let mut p = parent_step(node_parent)
DirpathIterate ==
    /\ op = "dirpath"
    /\ status = "running"
    /\ value # root(n)
    /\ Len(path) <= MaxIters
    /\ path' = Append(path, value)
    /\ value' = parent_step(value)
    /\ iters' = 0
    /\ status' = "in_parent"
    /\ UNCHANGED <<op, n, x, range_start, range_end, ft, buffer, vector>>

\* the loop condition fails: dirpath is returned
DirpathReturn ==
    /\ op = "dirpath"
    /\ status = "running"
    /\ value = root(n)
    /\ status' = "returned"
    /\ UNCHANGED <<op, n, x, value, path, range_start, range_end, ft, buffer, iters, vector>>

\* sibling has no loop of its own: it calls parent, then right or left
SiblingWhole ==
    /\ status = "idle"
    /\ \E i \in Indices(n) : Scalar("sibling", n, i, sibling(i, n))
    /\ NoVector

\* copath has no loop of its own: it calls dirpath, then sibling on each node
CopathWhole ==
    /\ status = "idle"
    /\ \E i \in Indices(n) : Path("copath", n, i, copath(i, n))
    /\ NoVector

\* the call is over: the next call is made on the same tree
LoopDone ==
    /\ status \notin {"idle", "running", "in_parent"}
    /\ op' = "none"
    /\ x' = 0
    /\ status' = "idle"
    /\ value' = 0
    /\ path' = <<>>
    /\ iters' = 0
    /\ UNCHANGED <<n, range_start, range_end, ft, buffer, vector>>

\* the tree the calls are made on: any leaf count n >= 1
LoopInit ==
    /\ op = "none"
    /\ n \in LeafCounts
    /\ x = 0
    /\ status = "idle"
    /\ value = 0
    /\ path = <<>>
    /\ range_start = 0
    /\ range_end = 0
    /\ ft = "none"
    /\ buffer = <<>>
    /\ iters = 0
    /\ vector = <<>>

LoopNext ==
    \/ RightEnter
    \/ RightIterate
    \/ RightReturn
    \/ ParentEnter
    \/ ParentIterate
    \/ ParentReturn
    \/ DirpathEnter
    \/ DirpathParentIterate
    \/ DirpathParentReturn
    \/ DirpathIterate
    \/ DirpathReturn
    \/ SiblingWhole
    \/ CopathWhole
    \/ LoopDone

\* the steps of a call that has been entered
LoopRun ==
    \/ RightIterate
    \/ RightReturn
    \/ ParentIterate
    \/ ParentReturn
    \/ DirpathParentIterate
    \/ DirpathParentReturn
    \/ DirpathIterate
    \/ DirpathReturn

\* a call that has been entered goes on running: the functions have no
\* suspension point and wait for nothing
LoopSpec == LoopInit /\ [][LoopNext]_vars /\ WF_vars(LoopRun)

TreeOps == {"root", "left", "right", "parent", "sibling", "dirpath", "copath", "leaves"}

TypeOK ==
    /\ op \in TreeOps \cup {"none", "gen_vector", "read_vector"}
    /\ status \in {"idle", "running", "in_parent", "returned", "panic_range", "panic_overflow",
                  "panic_decode", "hang"}
    /\ iters \in 0..MaxIters

(***************************************************************************)
(* Properties.                                                             *)
(***************************************************************************)
\* i is a node of the tree with m leaves
InTree(i, m) == 0 <= i /\ i < node_width(m)

\* the bit-trick right child of i, before the correction loop
RawRight(i) == BitXor(i, Shl(3, level(i) - 1))

\* C1: for n >= 1 and x in [0, node_width(n)), every index returned by root,
\* left, right, parent and sibling, and every element of dirpath, copath and
\* leaves, lies in [0, node_width(n)): no virtual index is returned.
C1_ResultsInRange ==
    (op \in TreeOps /\ InTree(x, n) /\ status = "returned") =>
        /\ InTree(value, n)
        /\ \A k \in 1..Len(path) : InTree(path[k], n)

\* a right child whose bit-trick index is virtual was corrected into the tree
C1_Witness ==
    /\ op = "right"
    /\ InTree(x, n)
    /\ level(x) > 0
    /\ status = "returned"
    /\ RawRight(x) >= node_width(n)
    /\ InTree(value, n)

\* C2: right, parent, sibling, dirpath and copath called with
\* x = node_width(n) fail with the out-of-range condition: they neither
\* return a value nor enter a correction loop.
C2_BoundaryFails ==
    (op \in {"right", "parent", "sibling", "dirpath", "copath"} /\ x = node_width(n)) =>
        status = "panic_range"

\* C3: for x in range, x # root(n) and p = parent(x, n):
\* parent(left(p), n) = p and parent(right(p, n), n) = p.
C3_ChildrenResolveToParent ==
    (op = "parent" /\ InTree(x, n) /\ x # root(n)) =>
        /\ status = "returned"
        /\ parent(left(value), n) = value
        /\ parent(right(value, n), n) = value

\* the parent's right child had to be corrected, and so had the way back up
C3_Witness ==
    /\ op = "parent"
    /\ InTree(x, n)
    /\ x # root(n)
    /\ status = "returned"
    /\ RawRight(value) >= node_width(n)
    /\ parent_step(right(value, n)) >= node_width(n)

\* C4: for x in range, x # root(n): sibling(sibling(x, n), n) = x and
\* sibling(x, n) # x.
C4_SiblingInvolution ==
    (op = "sibling" /\ InTree(x, n) /\ x # root(n)) =>
        /\ status = "returned"
        /\ sibling(value, n) = x
        /\ value # x

\* a right child whose parent is only found by the correction loop
C4_Witness ==
    /\ op = "sibling"
    /\ InTree(x, n)
    /\ x # root(n)
    /\ status = "returned"
    /\ parent_step(x) >= node_width(n)
    /\ value < x

\* C5: the root is a fixed point of parent and of sibling, and neither call
\* fails.
C5_RootFixedPoint ==
    (op \in {"parent", "sibling"} /\ x = root(n)) =>
        /\ status = "returned"
        /\ value = root(n)

\* sibling called on the root of a tree that has other nodes
C5_Witness ==
    /\ op = "sibling"
    /\ n >= 3
    /\ x = root(n)
    /\ status = "returned"

\* C6: dirpath(x, n) is empty exactly when x = root(n); otherwise it starts
\* with x, each later element is the parent of the one before, the root is
\* not in it, and the parent of its last element is the root.
C6_DirpathIsAncestorChain ==
    (op = "dirpath" /\ InTree(x, n)) =>
        /\ status = "returned"
        /\ (path = <<>>) <=> (x = root(n))
        /\ x # root(n) =>
            /\ path[1] = x
            /\ \A k \in 2..Len(path) : path[k] = parent(path[k - 1], n)
            /\ \A k \in 1..Len(path) : path[k] # root(n)
            /\ parent(path[Len(path)], n) = root(n)

\* a path of three nodes or more, one of whose steps needed the correction
C6_Witness ==
    /\ op = "dirpath"
    /\ InTree(x, n)
    /\ status = "returned"
    /\ Len(path) >= 3
    /\ \E k \in 1..Len(path) : parent_step(path[k]) >= node_width(n)

\* C7: copath(x, n) is as long as dirpath(x, n) and its i-th element is the
\* sibling of the i-th element of dirpath(x, n).
C7_CopathIsSiblingsOfDirpath ==
    (op = "copath" /\ InTree(x, n)) =>
        /\ status = "returned"
        /\ Len(path) = Len(dirpath(x, n))
        /\ \A k \in 1..Len(path) : path[k] = sibling(dirpath(x, n)[k], n)

\* a co-path of three nodes or more
C7_Witness ==
    /\ op = "copath"
    /\ InTree(x, n)
    /\ status = "returned"
    /\ Len(path) >= 3
    /\ path[1] # path[3]

\* C8: in the tree with 4 leaves: leaves = [0,2,4,6], root = 3, left(3) = 1,
\* right(3) = 5, parent(1) = 3, sibling(1) = 5, dirpath(0) = [0,1] and
\* copath(0) = [2,5].
C8_FourLeafScenario ==
    n = 4 =>
        /\ op = "leaves" => (status = "returned" /\ path = <<0, 2, 4, 6>>)
        /\ op = "root" => (status = "returned" /\ value = 3)
        /\ (op = "left" /\ x = 3) => (status = "returned" /\ value = 1)
        /\ (op = "right" /\ x = 3) => (status = "returned" /\ value = 5)
        /\ (op = "parent" /\ x = 1) => (status = "returned" /\ value = 3)
        /\ (op = "sibling" /\ x = 1) => (status = "returned" /\ value = 5)
        /\ (op = "dirpath" /\ x = 0) => (status = "returned" /\ path = <<0, 1>>)
        /\ (op = "copath" /\ x = 0) => (status = "returned" /\ path = <<2, 5>>)

\* the co-path of leaf 0 of the 4-leaf tree has been computed
C8_Witness ==
    /\ op = "copath"
    /\ n = 4
    /\ x = 0
    /\ status = "returned"
    /\ Len(path) = 2

\* the number of [len][len][bytes] groups gen_vector wrote from pos on
RECURSIVE CountGroups(_, _)
CountGroups(buf, pos) ==
    IF pos > Len(buf) THEN 0 ELSE 1 + CountGroups(buf, pos + 2 + buf[pos])

\* the number of samples serialized after the count byte
SamplesSerialized ==
    IF ft \in TwoArgsPathFns THEN CountGroups(buffer, 2) ELSE Len(buffer) - 2

\* C9: the first byte of gen_vector's output is the number of samples
\* generated and serialized after it, and there is one sample for each value
\* of the domain [range_start, range_end].
C9_CountIsSampleCount ==
    (op = "gen_vector" /\ status = "returned") =>
        /\ buffer[1] = SamplesSerialized
        /\ SamplesSerialized = range_end - range_start + 1

\* one length field, then the sample's indices truncated to a byte each, for
\* every sample from i on
RECURSIVE LengthPrefixed(_, _, _, _)
LengthPrefixed(i, end, size, f) ==
    IF i >= end THEN <<>>
    ELSE LET d == TwoArgsPath(f, i, size)
         IN  <<Len(d) % 256>> \o [k \in 1..Len(d) |-> d[k] % 256]
                 \o LengthPrefixed(i + 1, end, size, f)

\* C10: for dirpath and copath, what follows the count byte is, per sample
\* and in domain order, one length-prefixed byte string: one length byte and
\* that many bytes, each an index truncated to 8 bits, and nothing else.
C10_OneLengthPrefixPerSample ==
    (op = "gen_vector" /\ status = "returned" /\ ft \in TwoArgsPathFns) =>
        SubSeq(buffer, 2, Len(buffer)) = LengthPrefixed(range_start, range_end, n, ft)

\* the height of the tree with m leaves: the level of its root
Height(m) == log2(node_width(m))

\* a call that has been entered and has not ended
Running == status \in {"running", "in_parent"}

\* C11: for x in [0, node_width(n)) the correction loop of right, the
\* correction loop of parent and the ancestor loop of dirpath each end after
\* at most as many iterations as the tree is high, so right, parent,
\* sibling, dirpath and copath always return.
C11_LoopsTerminate ==
    /\ [](InTree(x, n) =>
            /\ status \in {"idle", "running", "in_parent", "returned"}
            /\ iters <= Height(n)
            /\ Len(path) <= Height(n))
    /\ (Running /\ InTree(x, n)) ~> (status = "returned")

\* a correction loop that returned after three iterations or more
C11_Witness ==
    /\ op = "parent"
    /\ InTree(x, n)
    /\ status = "returned"
    /\ iters >= 3
    /\ value = parent(x, n)

\* the values gen_vector's loop obtains from a scalar function, from i on
RECURSIVE ScalarSamples(_, _, _, _)
ScalarSamples(i, end, size, f) ==
    IF i >= end THEN <<>>
    ELSE <<IF f \in OneArgFns THEN OneArg(f, i) ELSE TwoArgs(f, i, size)>>
             \o ScalarSamples(i + 1, end, size, f)

\* the index sequences gen_vector's loop obtains from a path function
RECURSIVE PathSamples(_, _, _, _)
PathSamples(i, end, size, f) ==
    IF i >= end THEN <<>>
    ELSE <<TwoArgsPath(f, i, size)>> \o PathSamples(i + 1, end, size, f)

\* the samples of the vector that was generated and read
Samples ==
    IF ft \in TwoArgsPathFns
    THEN PathSamples(range_start, range_end, n, ft)
    ELSE ScalarSamples(range_start, range_end, n, ft)

\* every generated value fits in one byte
SamplesFitInByte ==
    IF ft \in TwoArgsPathFns
    THEN \A k \in 1..Len(Samples) : \A j \in 1..Len(Samples[k]) : Samples[k][j] < 256
    ELSE \A k \in 1..Len(Samples) : Samples[k] < 256

\* C12: read_vector, with the shape of the operation, applied to the bytes
\* gen_vector produced returns the generated samples in order, without a
\* decoding failure, when their values fit in one byte.
C12_ReadVectorRoundTrip ==
    (op = "read_vector" /\ SamplesFitInByte) =>
        /\ status = "returned"
        /\ vector = Samples

\* the odd (internal) indices of a tree with m leaves
Internal(m) == {z \in 0..(node_width(m) - 1) : z % 2 = 1}

\* C13: under parent the indices below node_width(n) form a proper binary
\* tree: for odd x, left(x) < x < right(x, n) and both are children of x; for
\* y # root(n), parent(y, n) = z exactly for the one odd z with y = left(z) or
\* y = right(z, n), and that parent has a strictly greater level; root(n) is
\* the only index that is its own parent.
C13_ProperBinaryTree ==
    /\ (op = "left" /\ InTree(x, n) /\ x % 2 = 1) =>
           /\ status = "returned"
           /\ value < x
           /\ parent(value, n) = x
    /\ (op = "right" /\ InTree(x, n) /\ x % 2 = 1) =>
           /\ status = "returned"
           /\ left(x) < x
           /\ x < value
           /\ parent(value, n) = x
    /\ (op = "parent" /\ InTree(x, n) /\ x # root(n)) =>
           /\ status = "returned"
           /\ value # x
           /\ level(value) > level(x)
           /\ \A z \in Internal(n) :
                  (value = z) <=> (x = left(z) \/ x = right(z, n))
           /\ Cardinality({z \in Internal(n) : x = left(z) \/ x = right(z, n)}) = 1
    /\ (op = "parent" /\ InTree(x, n) /\ status = "returned" /\ value = x) =>
           x = root(n)

\* a right child whose parent is more than one level above it: both
\* parent and right had to run their correction loops
C13_Witness ==
    /\ op = "parent"
    /\ InTree(x, n)
    /\ x # root(n)
    /\ status = "returned"
    /\ level(value) > level(x) + 1
    /\ x = right(value, n)
    /\ x # RawRight(value)

====
